---- MODULE Spec2Model ----
(***************************************************************************)
(* Verification model of src/interface.py (Sakhalin Wave Processor).       *)
(*                                                                         *)
(* Spec      the file-loading session of MainWindow together with the      *)
(*           ProcessingThread runs it launches (ingestion, assembly,       *)
(*           saving of Output/Step1_TXTtoCSV.csv, cancellation).           *)
(* SpecTrim  the stages after ingestion: the visualization subsample of    *)
(*           on_processing_finished, ManualRemovalWindow.detect_dive_legs  *)
(*           as far as it fixes the detected ranges, the operator's cut    *)
(*           points, save_trimmed_data and on_skip_removal.                *)
(* SpecSub   the subsampling expression iloc[::step] on explicit, short    *)
(*           datasets, with the target point count as a parameter.         *)
(***************************************************************************)
EXTENDS Integers, Sequences, FiniteSets, TLC

(***************************************************************************)
(* Bounds of the model.                                                    *)
(***************************************************************************)
\* number of ProcessingThread objects a session creates (on_continue calls)
MaxRuns == 2
\* longest data-file list the session builds
MaxFiles == 2
\* number of add_data_files / clear_data / set_info_file calls in a session
MaxEdits == 2
\* most 20-minute readings in the canonical dataset the trim stage is given
MaxReadings == 8
\* longest dataset handed to the subsampling expression
MaxLen == 12
\* largest target point count handed to the subsampling expression
MaxTarget == 4
\* largest chunksize the streaming reader of main() is run with
MaxChunk == 3
\* rows of a trimmed dataset handed to process_zero_mean, and the largest
\* pressure in it
MaxRows == 3
MaxPressure == 3
\* detect_dives: the most leading zeros, the longest ramp, the largest
\* sensitivity and the most samples beside a run of low samples in the
\* arrays it is given
MaxZeros == 45
MaxRamp == 12
MaxSensitivity == 3
MaxSlack == 2

(***************************************************************************)
(* Program constants.                                                      *)
(***************************************************************************)
\* points_per_reading = sensor_frequency * 1200 (20 minutes of samples)
SecondsPerReading == 1200
\* sensor_frequency default when line 2 of the INFO file holds no integer
DefaultFrequency == 8
\* visualization cache: len(viz_data) > 10000 is subsampled
VizTarget == 10000
\* detect_dive_legs: a gap of more than 100 points separates two segments
SegmentGap == 100

(***************************************************************************)
(* The files on disk the operator can choose from.  A data file is known   *)
(* by its suffix and the samples it holds; an INFO file by what            *)
(* read_info_file finds on its lines 2, 5 and 7.                           *)
(***************************************************************************)
FileIds == 1..3
FileExt == <<".npy", ".dat", ".csv">>
FileLen == <<700, 1300, 40>>

\* the k-th sample of data file f (an abstract pressure value, distinct for
\* every file and position, so that order and origin stay visible)
Sample(f, k) == f * 10000 + k

InfoIds == 1..5
\* re.findall(r'\d+', lines[2]): the integers on line 2
InfoLine2Numbers == << <<1>>, <<1>>, <<>>, <<2, 50>>, <<2>> >>
\* line 5 / line 7: "ok" parses with '%Y.%m.%d %H:%M:%S.%f', "bad" starts
\* with a digit and does not parse, "absent" is missing, empty or starts
\* with a non-digit
InfoLine5 == <<"ok", "bad", "ok", "ok", "absent">>
InfoLine7 == <<"ok", "ok", "bad", "ok", "ok">>
\* the integers on the first of lines 0-9 that holds a frequency keyword
\* ('частота', 'frequency', 'герц', 'hz', 'гц') and an integer, <<>> if
\* there is no such line; in files 1, 2 and 4 that line is line 2, in file
\* 5 it comes before line 2
InfoKeywordNumbers == << <<1>>, <<1>>, <<>>, <<2, 50>>, <<4>> >>

Runs == 1..MaxRuns

(***************************************************************************)
(* Sequence helpers (numpy / Python list semantics).                       *)
(***************************************************************************)
\* seq[:n] for n >= 0
Take(seq, n) == SubSeq(seq, 1, IF n < Len(seq) THEN n ELSE Len(seq))

Min(a, b) == IF a < b THEN a ELSE b
Max(a, b) == IF a > b THEN a ELSE b

\* np.concatenate(list of arrays), in list order
RECURSIVE Concatenate(_)
Concatenate(arrays) ==
    IF arrays = <<>> THEN <<>>
    ELSE Head(arrays) \o Concatenate(Tail(arrays))

\* the elements of a sequence
Range(seq) == {seq[k] : k \in 1..Len(seq)}

(***************************************************************************)
(* Pure parts of ProcessingThread.                                         *)
(***************************************************************************)
None == "None"

\* read_info_file, the try block of lines 165-178: a line that starts with
\* a digit and does not parse raises inside the one try block, so whatever
\* follows in the block is skipped and a warning is emitted
ReadInfoDates(info) ==
    IF InfoLine5[info] = "bad"
    THEN [date_start |-> None, date_end |-> None, warned |-> TRUE]
    ELSE LET ds == IF InfoLine5[info] = "ok" THEN "date" ELSE None
         IN  IF InfoLine7[info] = "bad"
             THEN [date_start |-> ds, date_end |-> None, warned |-> TRUE]
             ELSE [date_start |-> ds,
                   date_end |-> IF InfoLine7[info] = "ok" THEN "date" ELSE None,
                   warned |-> FALSE]

\* read_info_file, lines 180-187: first integer of line 2, else the default
ReadInfoFrequency(info) ==
    IF InfoLine2Numbers[info] # <<>>
    THEN InfoLine2Numbers[info][1]
    ELSE DefaultFrequency

\* the dictionary read_info_file returns
ReadInfoFile(info) ==
    [date_start |-> ReadInfoDates(info).date_start,
     date_end |-> ReadInfoDates(info).date_end,
     sensor_frequency |-> ReadInfoFrequency(info)]

NoMetadata == [date_start |-> None, date_end |-> None, sensor_frequency |-> 0]

\* read_data_file: the suffixes it loads; any other raises ValueError
\* (mutant) read_data_file accepts every extension
SupportedExt_All(f) == TRUE

SupportedExt(f) == FileExt[f] \in {".npy", ".dat", ".txt"}

\* read_data_file on a supported file: the array of its samples
ReadDataFile(f) == [k \in 1..FileLen[f] |-> Sample(f, k)]

\* progress_pct = 10 + int((i + 1) / len(self.data_files) * 30), i zero-based
LoopProgress(i, n) == 10 + (((i + 1) * 30) \div n)

PointsPerReading(freq) == freq * SecondsPerReading

\* (mutant) never fewer than one reading
NumCompleteReadings_AtLeastOne(all_data, freq) ==
    Max(1, Len(all_data) \div PointsPerReading(freq))

\* num_complete_readings = len(all_data) // points_per_reading
NumCompleteReadings(all_data, freq) == Len(all_data) \div PointsPerReading(freq)

\* (mutant) the trailing partial reading is kept
Truncate_KeepsRemainder(all_data, freq) == all_data

\* all_data[:num_complete_readings * points_per_reading]
Truncate(all_data, freq) ==
    Take(all_data, NumCompleteReadings(all_data, freq) * PointsPerReading(freq))

\* (mutant) np.arange(0, n): numbering from 0
ReadingNumbers_FromZero(n, ppr) == [j \in 1..(n * ppr) |-> (j - 1) \div ppr]

\* np.repeat(np.arange(1, n + 1), ppr)
ReadingNumbers(n, ppr) == [j \in 1..(n * ppr) |-> ((j - 1) \div ppr) + 1]

\* time_delta_milliseconds = 1000.0 / sensor_frequency, for the frequencies
\* of the INFO files above (divisors of 1000)
TimeDeltaMs(freq) == 1000 \div freq

\* (mutant) the sequence starts one spacing after midnight
Timestamps_FromFirstTick(periods, freq) ==
    [j \in 1..periods |-> j * TimeDeltaMs(freq)]

\* pd.date_range(start, periods, freq): milliseconds since midnight of
\* date_start
Timestamps(periods, freq) == [j \in 1..periods |-> (j - 1) * TimeDeltaMs(freq)]

EmptyFrame == [timestamp |-> <<>>, pressure |-> <<>>, reading_number |-> <<>>]

\* the arrays all_pressure_data holds
ArraysOf(loaded) == [k \in 1..Len(loaded) |-> ReadDataFile(loaded[k])]

\* steps 3-7 of run: the DataFrame built from the arrays read
AssembleFrame(loaded, freq) ==
    LET all_data == Truncate(Concatenate(ArraysOf(loaded)), freq)
        n == NumCompleteReadings(Concatenate(ArraysOf(loaded)), freq)
    IN  [timestamp |-> Timestamps(Len(all_data), freq),
         pressure |-> all_data,
         reading_number |-> ReadingNumbers(n, PointsPerReading(freq))]

FrameLen(df) == Len(df.pressure)

\* every list of arrays a run can have read, and every frequency
RECURSIVE ListsUpTo(_)
ListsUpTo(n) ==
    IF n = 0 THEN {<<>>}
    ELSE ListsUpTo(n - 1)
         \cup {Append(l, f) : l \in ListsUpTo(n - 1),
                              f \in {g \in FileIds : SupportedExt(g)}}
Frequencies == {ReadInfoFrequency(i) : i \in InfoIds}

\* AssembleFrame, tabulated once over those inputs
Frames ==
    [loaded \in ListsUpTo(MaxFiles), freq \in Frequencies |->
        AssembleFrame(loaded, freq)]

(***************************************************************************)
(* Subsampling: df.iloc[::step].reset_index(drop=True).                    *)
(***************************************************************************)
\* len(range(0, n, step))
RangeLen(n, step) == (n + step - 1) \div step

\* the positions range(0, n, step) selects, zero-based, in order
SliceIndices(n, step) == [k \in 1..RangeLen(n, step) |-> (k - 1) * step]

\* seq[::step]
EveryNth(seq, step) ==
    [k \in 1..RangeLen(Len(seq), step) |-> seq[SliceIndices(Len(seq), step)[k] + 1]]

\* (mutant) half the step
SubsampleStep_Halved(len, target) ==
    IF len > target THEN Max(1, len \div (2 * target)) ELSE 1

\* (mutant) the step rounded up instead of down
SubsampleStep_RoundedUp(len, target) ==
    IF len > target THEN (len + target - 1) \div target ELSE 1

\* step = len(data) // target, computed only when len(data) > target
SubsampleStep(len, target) == IF len > target THEN len \div target ELSE 1

\* if len(data) > target: data = data[::len(data) // target]
Subsample(seq, target) ==
    IF Len(seq) > target
    THEN EveryNth(seq, SubsampleStep(Len(seq), target))
    ELSE seq

\* len(viz_data) for a dataset of len rows, lines 722-725
SampledLen(len) == RangeLen(len, SubsampleStep(len, VizTarget))

SubsampleFrame(df, target) ==
    [timestamp |-> Subsample(df.timestamp, target),
     pressure |-> Subsample(df.pressure, target),
     reading_number |-> Subsample(df.reading_number, target)]

\* on_processing_finished, lines 721-735: the visualization sample of
\* result_df ("Sampled points", "Original points" of the cache header)
VizSample(df) ==
    [sampled |-> FrameLen(SubsampleFrame(df, VizTarget)),
     original |-> FrameLen(df)]

NoSample == [sampled |-> 0, original |-> 0]

(***************************************************************************)
(* State.                                                                  *)
(***************************************************************************)
VARIABLES
    \* MainWindow
    info_file,          \* self.info_file: 0 is None, else an INFO file
    data_files,         \* self.data_files: the list of data files
    edits,              \* file-selection calls made so far
    window,             \* "main": the loading window, "viz": visualization
    dialog_open,        \* the modal ProgressDialog of on_continue is open
    processing_thread,  \* self.processing_thread: 0 is unset, else a run
    processed_data,     \* self.processed_data, the visualization sample,
                        \* held as its row count and that of its origin
    inbox,              \* finished signals queued for the GUI thread
    \* ProcessingThread objects, by run
    pc,                 \* where run() stands
    thread_info,        \* self.info_file
    thread_files,       \* self.data_files as the thread sees the list
    shares_list,        \* self.data_files is still MainWindow's list object
    should_stop,        \* self.should_stop
    loop_i,             \* files consumed by the for loop
    all_pressure_data,  \* arrays read so far, each held as the file it is
                        \* the content of (ReadDataFile gives its samples)
    metadata,           \* result of read_info_file
    has_final_df,       \* run() has built final_df and it is still held,
                        \* by run() or by the queued finished signal
    events,             \* every signal the run emitted, in order
    \* disk
    output_file,        \* Output/Step1_TXTtoCSV.csv: what was written to it
    viz_cache_file      \* Output/Step1_Visualization.csv: run it caches, 0 none

VARIABLES
    \* VisualizationWindow / ManualRemovalWindow
    step1_rows,          \* rows of the body of Output/Step1_TXTtoCSV.csv
    dive_mask,           \* detect_dives(pressure_viz): the rows it marks
    beginning_viz_range, \* self.beginning_viz_range
    ending_viz_range,    \* self.ending_viz_range
    cut_indices,         \* self.cut_indices
    trim_locals,         \* locals of save_trimmed_data when it wrote
    step2_file,          \* Output/Step2_Initial_Cut.csv
    written_files,       \* names of the files of Output/ that the trimming
                         \* handlers have opened for writing
    \* the two subsampling sites on one dataset
    result_df,           \* the dataset on_processing_finished receives
    viz_target,          \* the 10000 of lines 723-724, as a parameter
    viz_data,            \* viz_data of on_processing_finished
    target_points,       \* target_points of create_plot
    data_to_plot,        \* data_to_plot of create_plot
    sub_pc,              \* "idle", then "cached" once viz_data is built,
                         \* then "plotted" once data_to_plot is built
    \* main(): the chunked reader of an existing Step1 file
    chunk_size,          \* chunk_size, the 100000 of line 2062, as a parameter
    row_counter,         \* row_counter
    sampled_data,        \* sampled_data: the rows kept of each chunk
    main_df,             \* df, the sample main() hands to VisualizationWindow
    main_pc              \* "idle", "reading" the chunks, "loaded", "failed"

VARIABLES
    \* process_zero_mean on an explicit dataset
    step2_data,          \* data: the rows read of Output/Step2_Initial_Cut.csv
    zero_mean_file,      \* Output/Step2_Zero_Mean.csv
    parameters_file      \* Output/Parameters.csv

VARIABLES
    \* detect_dives and detect_dive_legs on an explicit array
    pressure_viz,        \* pressure_viz: the pressures of the sample
    sensitivity,         \* the sensitivity detect_dives is called with
    dive_pc              \* "idle", "masked" once the plot has its mask,
                         \* "legs" once detect_dive_legs has run

sessionVars == <<info_file, data_files, edits, window, dialog_open,
                 processing_thread, processed_data, inbox>>
threadVars == <<pc, thread_info, thread_files, shares_list, should_stop,
                loop_i, all_pressure_data, metadata, has_final_df, events>>

\* final_df of run t: the arrays and the frequency it is built from do not
\* change once it is built, so the frame is read off them
final_df(t) ==
    IF has_final_df[t]
    THEN Frames[all_pressure_data[t], metadata[t].sensor_frequency]
    ELSE EmptyFrame
diskVars == <<output_file, viz_cache_file>>
trimVars == <<step1_rows, dive_mask, beginning_viz_range, ending_viz_range,
              cut_indices, trim_locals, step2_file, written_files>>
subVars == <<result_df, viz_target, viz_data, target_points, data_to_plot,
            sub_pc, chunk_size, row_counter, sampled_data, main_df, main_pc>>
inMemoryVars == <<viz_data, data_to_plot, sub_pc>>
chunkedVars == <<row_counter, sampled_data, main_df, main_pc>>
zeroVars == <<step2_data, zero_mean_file, parameters_file>>
diveVars == <<pressure_viz, sensitivity, dive_pc>>
stageVars == <<trimVars, subVars, zeroVars, diveVars>>

Progress(pct) == <<"progress", pct>>
Finished(success) == <<"finished", success>>
\* progress.emit(0, error_msg), error_msg the message and the traceback
ErrorReport == <<"progress", 0, "Error">>

\* None where the program holds an index or a count
NoIndex == -1
\* None where the program holds a (start, end) range
NoRange == <<>>
\* self.cut_indices = {'beginning': None, 'ending': None}
NoCut == [beginning |-> NoIndex, ending |-> NoIndex]
\* a mask of detect_dives with no row marked
NoMask == [jump_end |-> 0, drop_start |-> 0]
\* save_trimmed_data has not run
NoLocals ==
    [ran |-> FALSE, subsample_step |-> 0,
     beginning_full_idx |-> NoIndex, ending_full_idx |-> NoIndex]
\* a file that does not exist
NoFile ==
    [exists |-> FALSE, rows |-> [first |-> 0, len |-> 0],
     original_points |-> NoIndex, trimmed_points |-> NoIndex,
     points_removed |-> NoIndex]

\* MainWindow.__init__, and the window shown with the sample it shows
InitSession(w, sample) ==
    /\ info_file = 0
    /\ data_files = <<>>
    /\ edits = 0
    /\ window = w
    /\ dialog_open = FALSE
    /\ processing_thread = 0
    /\ processed_data = sample
    /\ inbox = <<>>

\* no ProcessingThread exists yet
InitThreads ==
    /\ pc = [t \in Runs |-> "unborn"]
    /\ thread_info = [t \in Runs |-> 0]
    /\ thread_files = [t \in Runs |-> <<>>]
    /\ shares_list = [t \in Runs |-> FALSE]
    /\ should_stop = [t \in Runs |-> FALSE]
    /\ loop_i = [t \in Runs |-> 0]
    /\ all_pressure_data = [t \in Runs |-> <<>>]
    /\ metadata = [t \in Runs |-> NoMetadata]
    /\ has_final_df = [t \in Runs |-> FALSE]
    /\ events = [t \in Runs |-> <<>>]

\* ManualRemovalWindow.__init__: nothing detected, nothing clicked, no
\* Step2 file, nothing written by a trimming handler
InitManualRemoval ==
    /\ beginning_viz_range = NoRange
    /\ ending_viz_range = NoRange
    /\ cut_indices = NoCut
    /\ trim_locals = NoLocals
    /\ step2_file = NoFile
    /\ written_files = {}

\* the mean of no value: a quotient is held as numerator and denominator,
\* and NaN has denominator 0
NaN == [num |-> 0, den |-> 0]
\* process_zero_mean has not run: its two files do not exist
NoDerivedFile == [exists |-> FALSE, avg_depth_full_rec |-> NaN, rows |-> <<>>]

InitNoZeroMean ==
    /\ step2_data = <<>>
    /\ zero_mean_file = NoDerivedFile
    /\ parameters_file = NoDerivedFile

\* detect_dives(self, pressure, sensitivity=3.0)
DefaultSensitivity == 3

\* no array has been handed to detect_dives
InitNoDive ==
    /\ pressure_viz = <<>>
    /\ sensitivity = DefaultSensitivity
    /\ dive_pc = "idle"

\* no dataset has been handed to the subsampling sites
InitNoSubsample ==
    /\ result_df = <<>>
    /\ viz_target = 1
    /\ viz_data = <<>>
    /\ target_points = 1
    /\ data_to_plot = <<>>
    /\ sub_pc = "idle"
    /\ chunk_size = 1
    /\ row_counter = 0
    /\ sampled_data = <<>>
    /\ main_df = <<>>
    /\ main_pc = "idle"

InitRun ==
    /\ InitSession("main", NoSample)
    /\ InitThreads
    /\ output_file = <<>>
    /\ viz_cache_file = 0
    /\ step1_rows = 0
    /\ dive_mask = NoMask
    /\ InitManualRemoval
    /\ InitNoSubsample
    /\ InitNoZeroMean
    /\ InitNoDive

(***************************************************************************)
(* MainWindow: choosing files.  The loading window takes input only while  *)
(* it is shown and no modal dialog is running.                             *)
(***************************************************************************)
MainIdle == window = "main" /\ ~dialog_open

\* batches a file dialog or a drop hands to add_data_files: any one file,
\* two supported files, the same file twice, a supported file and then an
\* unsupported one
Batches == {<<f>> : f \in FileIds} \cup {<<1, 2>>, <<2, 2>>, <<2, 3>>}

\* new_files = [f for f in files if f not in self.data_files]
NewFiles(files, current) == SelectSeq(files, LAMBDA f : f \notin Range(current))

\* read_frequency_from_info: the frequency the label shows, NoIndex when
\* it raises ValueError and the label reads "Could not read frequency"
ReadFrequencyFromInfo(info) ==
    IF InfoKeywordNumbers[info] # <<>> THEN InfoKeywordNumbers[info][1]
    ELSE IF InfoLine2Numbers[info] # <<>> THEN InfoLine2Numbers[info][1]
    ELSE NoIndex

set_info_file(i) ==
    /\ MainIdle
    /\ edits < MaxEdits
    /\ info_file' = i
    /\ edits' = edits + 1
    /\ UNCHANGED <<data_files, window, dialog_open, processing_thread,
                   processed_data, inbox>>
    /\ UNCHANGED threadVars
    /\ UNCHANGED diskVars
    /\ UNCHANGED stageVars

\* self.data_files.extend(new_files) changes the list object in place: a
\* ProcessingThread that was given this list sees the new entries
add_data_files(files) ==
    /\ MainIdle
    /\ edits < MaxEdits
    /\ Len(data_files) + Len(NewFiles(files, data_files)) <= MaxFiles
    /\ edits' = edits + 1
    /\ IF NewFiles(files, data_files) = <<>>
       THEN UNCHANGED <<data_files, thread_files>>
       ELSE /\ data_files' = data_files \o NewFiles(files, data_files)
            /\ thread_files' =
                 [t \in Runs |->
                    IF shares_list[t]
                    THEN data_files \o NewFiles(files, data_files)
                    ELSE thread_files[t]]
    /\ UNCHANGED <<info_file, window, dialog_open, processing_thread,
                   processed_data, inbox>>
    /\ UNCHANGED <<pc, thread_info, shares_list, should_stop, loop_i,
                   all_pressure_data, metadata, has_final_df, events>>
    /\ UNCHANGED diskVars
    /\ UNCHANGED stageVars

\* self.data_files = [] binds a new list: running threads keep the old one
clear_data ==
    /\ MainIdle
    /\ edits < MaxEdits
    /\ data_files # <<>>
    /\ edits' = edits + 1
    /\ data_files' = <<>>
    /\ shares_list' = [t \in Runs |-> FALSE]
    /\ UNCHANGED <<info_file, window, dialog_open, processing_thread,
                   processed_data, inbox>>
    /\ UNCHANGED <<pc, thread_info, thread_files, should_stop, loop_i,
                   all_pressure_data, metadata, has_final_df, events>>
    /\ UNCHANGED diskVars
    /\ UNCHANGED stageVars

(***************************************************************************)
(* MainWindow: running the pipeline.                                       *)
(***************************************************************************)
\* update_status enables the Continue button
ContinueEnabled == info_file # 0 /\ data_files # <<>>

\* the next ProcessingThread object
NextRun == Cardinality({t \in Runs : pc[t] # "unborn"}) + 1

on_continue ==
    /\ MainIdle
    /\ ContinueEnabled
    /\ NextRun \in Runs
    /\ processing_thread' = NextRun
    /\ dialog_open' = TRUE
    /\ pc' = [pc EXCEPT ![NextRun] = "start"]
    /\ thread_info' = [thread_info EXCEPT ![NextRun] = info_file]
    /\ thread_files' = [thread_files EXCEPT ![NextRun] = data_files]
    /\ shares_list' = [shares_list EXCEPT ![NextRun] = TRUE]
    /\ UNCHANGED <<info_file, data_files, edits, window, processed_data, inbox>>
    /\ UNCHANGED <<should_stop, loop_i, all_pressure_data, metadata, has_final_df,
                   events>>
    /\ UNCHANGED diskVars
    /\ UNCHANGED stageVars

\* the Cancel button of the open dialog: stop() on the latest thread, close
cancel_processing ==
    /\ dialog_open
    /\ should_stop' = [should_stop EXCEPT ![processing_thread] = TRUE]
    /\ dialog_open' = FALSE
    /\ UNCHANGED <<info_file, data_files, edits, window, processing_thread,
                   processed_data, inbox>>
    /\ UNCHANGED <<pc, thread_info, thread_files, shares_list, loop_i,
                   all_pressure_data, metadata, has_final_df, events>>
    /\ UNCHANGED diskVars
    /\ UNCHANGED stageVars

\* the slot connected to every thread's finished signal; the DataFrame the
\* signal carried is released when the slot returns
on_processing_finished ==
    /\ inbox # <<>>
    /\ inbox' = Tail(inbox)
    /\ dialog_open' = FALSE
    /\ IF Head(inbox)[2]
       THEN /\ processed_data' = VizSample(final_df(Head(inbox)[1]))
            /\ viz_cache_file' = Head(inbox)[1]
            /\ window' = "viz"
            /\ has_final_df' = [has_final_df EXCEPT ![Head(inbox)[1]] = FALSE]
       ELSE UNCHANGED <<processed_data, viz_cache_file, window, has_final_df>>
    /\ UNCHANGED <<info_file, data_files, edits, processing_thread>>
    /\ UNCHANGED <<pc, thread_info, thread_files, shares_list, should_stop,
                   loop_i, all_pressure_data, metadata, events>>
    /\ UNCHANGED output_file
    /\ UNCHANGED stageVars

(***************************************************************************)
(* ProcessingThread.run, one action per stretch of code between two        *)
(* points at which another thread can make a difference (a poll of         *)
(* should_stop, a read of the shared list, a write to the output file).    *)
(***************************************************************************)
\* (mutant) the except branch emits the outcome without the diagnostic
Raise_WithoutReport(t) ==
    /\ events' = [events EXCEPT ![t] = Append(@, Finished(FALSE))]
    /\ inbox' = Append(inbox, <<t, FALSE>>)
    /\ pc' = [pc EXCEPT ![t] = "failed"]

\* the except branch of run: progress.emit(0, error_msg), finished.emit(False, None)
Raise(t) ==
    /\ events' = [events EXCEPT ![t] = @ \o <<ErrorReport, Finished(FALSE)>>]
    /\ inbox' = Append(inbox, <<t, FALSE>>)
    /\ pc' = [pc EXCEPT ![t] = "failed"]

\* events of step 1: progress 5, the date warning of read_info_file if any,
\* progress 10
InfoEvents(info) ==
    <<Progress(5)>>
    \o (IF ReadInfoDates(info).warned THEN <<Progress(0)>> ELSE <<>>)
    \o <<Progress(10)>>

\* lines 42-48
ThreadReadInfo(t) ==
    /\ pc[t] = "start"
    /\ metadata' = [metadata EXCEPT ![t] = ReadInfoFile(thread_info[t])]
    /\ events' = [events EXCEPT ![t] = @ \o InfoEvents(thread_info[t])]
    /\ pc' = [pc EXCEPT ![t] = "loop"]
    /\ UNCHANGED sessionVars
    /\ UNCHANGED <<thread_info, thread_files, shares_list, should_stop, loop_i,
                   all_pressure_data, has_final_df>>
    /\ UNCHANGED diskVars
    /\ UNCHANGED stageVars

\* (mutant) the loop never looks at should_stop
StopObserved_Never(t) == FALSE

\* the poll of should_stop: TRUE when the run has to return
StopObserved(t) == should_stop[t]

\* lines 50-60: one iteration of the for loop
ThreadLoopIteration(t) ==
    /\ pc[t] = "loop"
    /\ loop_i[t] < Len(thread_files[t])
    /\ IF StopObserved(t)
       THEN /\ pc' = [pc EXCEPT ![t] = "cancelled"]
            /\ UNCHANGED <<events, inbox, loop_i, all_pressure_data>>
       ELSE IF ~SupportedExt(thread_files[t][loop_i[t] + 1])
       THEN /\ Raise(t)
            /\ UNCHANGED <<loop_i, all_pressure_data>>
       ELSE /\ all_pressure_data' =
                 [all_pressure_data EXCEPT
                    ![t] = Append(@, thread_files[t][loop_i[t] + 1])]
            /\ events' =
                 [events EXCEPT
                    ![t] = Append(@, Progress(LoopProgress(loop_i[t],
                                                           Len(thread_files[t]))))]
            /\ loop_i' = [loop_i EXCEPT ![t] = @ + 1]
            /\ UNCHANGED <<pc, inbox>>
    /\ UNCHANGED <<info_file, data_files, edits, window, dialog_open,
                   processing_thread, processed_data>>
    /\ UNCHANGED <<thread_info, thread_files, shares_list, should_stop, metadata,
                   has_final_df>>
    /\ UNCHANGED diskVars
    /\ UNCHANGED stageVars

\* events of steps 3-8 up to the save: the progress checkpoints of lines
\* 66-82, then either the TypeError of datetime.combine(None, ...) or the
\* checkpoints of lines 96 and 112
AssembleEvents(date_start) ==
    <<Progress(45), Progress(50), Progress(60), Progress(70)>>
    \o (IF date_start = None
        THEN <<ErrorReport, Finished(FALSE)>>
        ELSE <<Progress(85), Progress(90)>>)

\* lines 62-112: the list is exhausted, should_stop is polled a last time,
\* and the frame is assembled.  Nothing between the poll and the opening of
\* the output file reads or writes anything another thread can touch.
ThreadAssemble(t) ==
    /\ pc[t] = "loop"
    /\ loop_i[t] >= Len(thread_files[t])
    /\ IF StopObserved(t)
       THEN /\ pc' = [pc EXCEPT ![t] = "cancelled"]
            /\ UNCHANGED <<events, inbox, has_final_df>>
       ELSE /\ events' =
                 [events EXCEPT ![t] = @ \o AssembleEvents(metadata[t].date_start)]
            /\ IF metadata[t].date_start = None
               THEN /\ inbox' = Append(inbox, <<t, FALSE>>)
                    /\ pc' = [pc EXCEPT ![t] = "failed"]
                    /\ UNCHANGED has_final_df
               ELSE /\ has_final_df' = [has_final_df EXCEPT ![t] = TRUE]
                    /\ pc' = [pc EXCEPT ![t] = "save_header"]
                    /\ UNCHANGED inbox
    /\ UNCHANGED <<info_file, data_files, edits, window, dialog_open,
                   processing_thread, processed_data>>
    /\ UNCHANGED <<thread_info, thread_files, shares_list, should_stop, loop_i,
                   all_pressure_data, metadata>>
    /\ UNCHANGED diskVars
    /\ UNCHANGED stageVars

\* what a write leaves in the output file
Chunk(kind, t) == <<kind, t>>

\* lines 121-132: open(output_file, 'w') truncates, then the '#' lines
WriteHeader(t) == <<Chunk("header", t)>>

\* (mutant) the table is not written
WriteBody_Nothing(t, file) == file

\* line 135: final_df.to_csv(output_file, mode='a') appends the table
WriteBody(t, file) == Append(file, Chunk("body", t))

\* lines 114-132
ThreadSaveHeader(t) ==
    /\ pc[t] = "save_header"
    /\ output_file' = WriteHeader(t)
    /\ pc' = [pc EXCEPT ![t] = "save_body"]
    /\ UNCHANGED <<events, inbox, has_final_df>>
    /\ UNCHANGED <<info_file, data_files, edits, window, dialog_open,
                   processing_thread, processed_data>>
    /\ UNCHANGED <<thread_info, thread_files, shares_list, should_stop, loop_i,
                   all_pressure_data, metadata>>
    /\ UNCHANGED viz_cache_file
    /\ UNCHANGED stageVars

\* lines 134-138.  The disk decides whether to_csv succeeds: when it runs
\* out of space or the file has become unwritable, to_csv raises after it
\* has written some of the rows, or none.
ThreadSaveBody(t) ==
    /\ pc[t] = "save_body"
    /\ \/ /\ output_file' = WriteBody(t, output_file)
          /\ events' = [events EXCEPT ![t] = @ \o <<Progress(100), Finished(TRUE)>>]
          /\ inbox' = Append(inbox, <<t, TRUE>>)
          /\ pc' = [pc EXCEPT ![t] = "succeeded"]
          /\ UNCHANGED has_final_df
       \/ /\ output_file' = Append(output_file, Chunk("body_part", t))
          /\ Raise(t)
          /\ has_final_df' = [has_final_df EXCEPT ![t] = FALSE]
    /\ UNCHANGED <<info_file, data_files, edits, window, dialog_open,
                   processing_thread, processed_data>>
    /\ UNCHANGED <<thread_info, thread_files, shares_list, should_stop, loop_i,
                   all_pressure_data, metadata>>
    /\ UNCHANGED viz_cache_file
    /\ UNCHANGED stageVars

vars == <<sessionVars, threadVars, diskVars, stageVars>>

NextRunStep ==
    \/ \E i \in InfoIds : set_info_file(i)
    \/ \E files \in Batches : add_data_files(files)
    \/ clear_data
    \/ on_continue
    \/ cancel_processing
    \/ on_processing_finished
    \/ \E t \in Runs : ThreadReadInfo(t)
    \/ \E t \in Runs : ThreadLoopIteration(t)
    \/ \E t \in Runs : ThreadAssemble(t)
    \/ \E t \in Runs : ThreadSaveHeader(t)
    \/ \E t \in Runs : ThreadSaveBody(t)

Spec == InitRun /\ [][NextRunStep]_vars

(***************************************************************************)
(* After ingestion: VisualizationWindow and ManualRemovalWindow.           *)
(* A dataset is held by the rows of Step1_TXTtoCSV.csv it consists of:     *)
(* [first, len] is rows first .. first + len - 1, its index labels.        *)
(***************************************************************************)
WholeData(len) == [first |-> 0, len |-> len]

\* df.iloc[b:] for b >= 0
ILocFrom(df, b) ==
    [first |-> df.first + Min(b, df.len), len |-> df.len - Min(b, df.len)]

\* df.iloc[:r]: the first r rows, or all but the last -r rows when r < 0
ILocUpTo(df, r) ==
    [first |-> df.first,
     len |-> IF r >= 0 THEN Min(r, df.len) ELSE Max(df.len + r, 0)]

\* (mutant) a margin of a fifth
TenPercent_Fifth(x) == x \div 5

\* int(x * 0.1) of the safety margins, for the x >= 0 that occur
TenPercent(x) == x \div 10

\* detect_dives on a sample of n points marks rows [0, jump_end) and rows
\* [drop_start, n), either of them possibly empty: the outcomes tried are
\* no leg, a short leg, a long leg
DiveMasks(n) ==
    [jump_end : {0, n \div 20, n \div 4},
     drop_start : {n, n - (n \div 20), n - (n \div 4)}]

\* detect_dive_legs, lines 1349-1392, from the mask detect_dives returned
DetectDiveLegs(mask, n) ==
    LET je == mask.jump_end
        ds == mask.drop_start
        has_begin == je > 0
        has_end == ds < n
        \* dive_indices[0], dive_indices[-1]
        first == IF has_begin THEN 0 ELSE ds
        last == IF has_end THEN n - 1 ELSE je - 1
        \* np.where(np.diff(dive_indices) > 100)
        two_segments == has_begin /\ has_end /\ ds - (je - 1) > SegmentGap
        begin0 == IF ~(has_begin \/ has_end) THEN NoRange
                  ELSE IF two_segments THEN <<0, je - 1>>
                  ELSE IF first < n \div 2 THEN <<0, last>>
                  ELSE NoRange
        end0 == IF ~(has_begin \/ has_end) THEN NoRange
                ELSE IF two_segments THEN <<ds, n - 1>>
                ELSE IF first < n \div 2 THEN NoRange
                ELSE <<first, n - 1>>
    IN  [beginning |->
            IF begin0 = NoRange THEN NoRange
            ELSE <<begin0[1],
                   Min(begin0[2] + TenPercent(begin0[2] - begin0[1]), n - 1)>>,
         ending |->
            IF end0 = NoRange THEN NoRange
            ELSE <<Max(end0[1] - TenPercent(end0[2] - end0[1]), 0), end0[2]>>]

\* (mutant) the detected boundary wins over the operator's click
EffectiveCut_DetectedFirst(click, range, k) ==
    IF range # NoRange THEN range[k]
    ELSE IF click # NoIndex THEN click
    ELSE NoIndex

\* lines 1634-1646: the viz index a side is cut at; k = 2 takes the end of
\* the detected range, k = 1 its start
EffectiveCut(click, range, k) ==
    IF click # NoIndex THEN click
    ELSE IF range # NoRange THEN range[k]
    ELSE NoIndex

\* (mutant) a click can also give the index one past the sample
Clicks_PastEnd(n) == {0, n \div 2, n - 1, n}

\* viz indices a click can give: time_diff.argmin() over the whole sample
Clicks(n) == {0, n \div 8, n \div 2, n - (n \div 8), n - 1}

\* a Step1 file left by a run of an earlier session
EarlierOutput == <<Chunk("header", 0), Chunk("body", 0)>>

\* the visualization window is open on a canonical dataset of 1 to
\* MaxReadings readings and its sample
InitTrim ==
    \E freq \in Frequencies : \E readings \in 1..MaxReadings :
        LET len == readings * PointsPerReading(freq)
        IN  /\ InitSession("viz", [sampled |-> SampledLen(len), original |-> len])
            /\ InitThreads
            /\ output_file = EarlierOutput
            /\ viz_cache_file = 0
            /\ step1_rows = len
            /\ dive_mask \in DiveMasks(SampledLen(len))
            /\ InitManualRemoval
            /\ InitNoSubsample
            /\ InitNoZeroMean
            /\ InitNoDive

behindWindow == <<info_file, data_files, edits, dialog_open, processing_thread,
                  processed_data, inbox, threadVars, viz_cache_file, step1_rows,
                  dive_mask, subVars, zeroVars, diveVars>>

\* the canonical file, which run() writes and the later stages read
Step1Name == "Step1_TXTtoCSV.csv"

\* (mutant) the trimmed rows are written back into the canonical file
TrimOutputs_InPlace ==
    {"Step1_TXTtoCSV.csv", "Step2_Zero_Mean.csv", "Parameters.csv"}

\* the files the two trimming handlers open for writing: step2_file
\* themselves, zero_mean_file and parameters_file in process_zero_mean
TrimOutputs == {"Step2_Initial_Cut.csv", "Step2_Zero_Mean.csv", "Parameters.csv"}

\* open(name, 'w') and to_csv(name, mode='a') on each of names: the file
\* is replaced by what the handler writes; of the canonical file the model
\* keeps the chunks written, of the derived ones the names
WriteFiles(names) ==
    /\ written_files' = written_files \cup names
    /\ output_file' =
         IF Step1Name \in names THEN <<Chunk("header", 0)>> ELSE output_file

\* VisualizationWindow.on_manual_removal: ManualRemovalWindow(self.data_df)
\* is built, init_ui runs detect_dive_legs
on_manual_removal ==
    /\ window = "viz"
    /\ window' = "manual"
    /\ cut_indices' = NoCut
    /\ beginning_viz_range' =
         DetectDiveLegs(dive_mask, processed_data.sampled).beginning
    /\ ending_viz_range' =
         DetectDiveLegs(dive_mask, processed_data.sampled).ending
    /\ UNCHANGED <<trim_locals, step2_file, written_files, output_file>>
    /\ UNCHANGED behindWindow

\* the plot of a leg exists only if the leg was detected (lines 1275, 1288)
PlotShown(leg) ==
    IF leg = "beginning" THEN beginning_viz_range # NoRange
    ELSE ending_viz_range # NoRange

\* on_click of the plot of leg_type
on_click(leg_type, viz_idx) ==
    /\ window = "manual"
    /\ PlotShown(leg_type)
    /\ cut_indices' = [cut_indices EXCEPT ![leg_type] = viz_idx]
    /\ UNCHANGED <<window, beginning_viz_range, ending_viz_range, trim_locals,
                   step2_file, written_files, output_file>>
    /\ UNCHANGED behindWindow

\* ManualRemovalWindow.save_trimmed_data, with the process_zero_mean it
\* ends on: the rows of the Step2 file and the names of the files written
\* (what process_zero_mean puts in its two files is modelled on explicit
\* datasets further down)
save_trimmed_data ==
    /\ window = "manual"
    /\ LET full_data == WholeData(step1_rows)
           subsample_step == full_data.len \div processed_data.sampled
           begin_viz == EffectiveCut(cut_indices.beginning, beginning_viz_range, 2)
           end_viz == EffectiveCut(cut_indices.ending, ending_viz_range, 1)
           beginning_full_idx ==
               IF begin_viz = NoIndex THEN NoIndex ELSE begin_viz * subsample_step
           ending_full_idx ==
               IF end_viz = NoIndex THEN NoIndex ELSE end_viz * subsample_step
           from_begin ==
               IF beginning_full_idx = NoIndex THEN full_data
               ELSE ILocFrom(full_data, beginning_full_idx)
           \* trimmed_data.index[0] raises on an empty frame
           raises == ending_full_idx # NoIndex /\ from_begin.len = 0
           trimmed_data ==
               IF ending_full_idx = NoIndex THEN from_begin
               ELSE ILocUpTo(from_begin, ending_full_idx - from_begin.first)
       IN  IF raises
           THEN UNCHANGED <<window, trim_locals, step2_file, written_files,
                            output_file>>
           ELSE /\ trim_locals' =
                     [ran |-> TRUE,
                      subsample_step |-> subsample_step,
                      beginning_full_idx |-> beginning_full_idx,
                      ending_full_idx |-> ending_full_idx]
                /\ step2_file' =
                     [exists |-> TRUE,
                      rows |-> trimmed_data,
                      original_points |-> full_data.len,
                      trimmed_points |-> trimmed_data.len,
                      points_removed |-> full_data.len - trimmed_data.len]
                /\ WriteFiles(TrimOutputs)
                /\ window' = "closed"
    /\ UNCHANGED <<beginning_viz_range, ending_viz_range, cut_indices>>
    /\ UNCHANGED behindWindow

\* VisualizationWindow.on_skip_removal: shutil.copy(step1_file, step2_file),
\* then process_zero_mean
on_skip_removal ==
    /\ window = "viz"
    /\ WriteFiles(TrimOutputs)
    /\ step2_file' =
         [exists |-> TRUE,
          rows |-> WholeData(step1_rows),
          original_points |-> NoIndex,
          trimmed_points |-> NoIndex,
          points_removed |-> NoIndex]
    /\ window' = "closed"
    /\ UNCHANGED <<beginning_viz_range, ending_viz_range, cut_indices,
                   trim_locals>>
    /\ UNCHANGED behindWindow

\* the Cancel button of ManualRemovalWindow: self.close
cancel_manual_removal ==
    /\ window = "manual"
    /\ window' = "closed"
    /\ UNCHANGED <<beginning_viz_range, ending_viz_range, cut_indices,
                   trim_locals, step2_file, written_files, output_file>>
    /\ UNCHANGED behindWindow

NextTrimStep ==
    \/ on_manual_removal
    \/ \E leg_type \in {"beginning", "ending"} :
          \E viz_idx \in Clicks(processed_data.sampled) :
              on_click(leg_type, viz_idx)
    \/ save_trimmed_data
    \/ on_skip_removal
    \/ cancel_manual_removal

SpecTrim == InitTrim /\ [][NextTrimStep]_vars

(***************************************************************************)
(* The subsampling expression at its two sites, on explicit datasets.      *)
(***************************************************************************)
\* a dataset of len distinct rows
Rows(len) == [k \in 1..len |-> Sample(1, k)]

InitSub ==
    /\ InitSession("main", NoSample)
    /\ InitThreads
    /\ output_file = <<>>
    /\ viz_cache_file = 0
    /\ step1_rows = 0
    /\ dive_mask = NoMask
    /\ InitManualRemoval
    /\ \E len \in 0..MaxLen : result_df = Rows(len)
    /\ viz_target \in 1..MaxTarget
    /\ target_points \in 1..MaxTarget
    /\ viz_data = <<>>
    /\ data_to_plot = <<>>
    /\ sub_pc = "idle"
    /\ chunk_size \in 1..MaxChunk
    /\ row_counter = 0
    /\ sampled_data = <<>>
    /\ main_df = <<>>
    /\ main_pc = "reading"
    /\ InitNoZeroMean
    /\ InitNoDive

\* on_processing_finished, lines 722-725
SubsampleForCache ==
    /\ sub_pc = "idle"
    /\ viz_data' = Subsample(result_df, viz_target)
    /\ sub_pc' = "cached"
    /\ UNCHANGED <<result_df, viz_target, target_points, data_to_plot,
                   chunk_size, chunkedVars>>
    /\ UNCHANGED <<sessionVars, threadVars, diskVars, trimVars, zeroVars,
                   diveVars>>

\* create_plot, lines 931-936, on the sample the window was given
SubsampleForPlot ==
    /\ sub_pc = "cached"
    /\ data_to_plot' = Subsample(viz_data, target_points)
    /\ sub_pc' = "plotted"
    /\ UNCHANGED <<result_df, viz_target, target_points, viz_data,
                   chunk_size, chunkedVars>>
    /\ UNCHANGED <<sessionVars, threadVars, diskVars, trimVars, zeroVars,
                   diveVars>>

\* sample_step = max(1, total_lines // target_rows), lines 2056-2057
SampleStep(total_lines, target_rows) == Max(1, total_lines \div target_rows)

\* keep_indices of the chunk of len rows that starts at global row first
KeepIndices(first, len, sample_step) ==
    SelectSeq([k \in 1..len |-> first + k - 1], LAMBDA i : i % sample_step = 0)

\* chunk.iloc[local_indices] for the chunk of data that starts at row first
KeptOfChunk(data, first, len, sample_step) ==
    LET keep_indices == KeepIndices(first, len, sample_step)
    IN  [k \in 1..Len(keep_indices) |-> data[keep_indices[k] + 1]]

\* main(), lines 2065-2074: one turn of the loop over the chunks
ReadChunk ==
    /\ main_pc = "reading"
    /\ row_counter < Len(result_df)
    /\ LET len == Min(chunk_size, Len(result_df) - row_counter)
           kept == KeptOfChunk(result_df, row_counter, len,
                               SampleStep(Len(result_df), viz_target))
       IN  /\ sampled_data' =
                 IF kept # <<>> THEN Append(sampled_data, kept) ELSE sampled_data
           /\ row_counter' = row_counter + len
    /\ UNCHANGED <<result_df, viz_target, target_points, chunk_size, main_df,
                   main_pc, inMemoryVars>>
    /\ UNCHANGED <<sessionVars, threadVars, diskVars, trimVars, zeroVars,
                   diveVars>>

\* main(), line 2082: pd.concat(sampled_data, ignore_index=True), which
\* raises ValueError when the list is empty; a file without rows gives no
\* chunk, or one empty chunk on which line 2077 divides by total_lines = 0
ConcatSampled ==
    /\ main_pc = "reading"
    /\ row_counter >= Len(result_df)
    /\ IF sampled_data = <<>>
       THEN main_pc' = "failed" /\ UNCHANGED main_df
       ELSE main_pc' = "loaded" /\ main_df' = Concatenate(sampled_data)
    /\ UNCHANGED <<result_df, viz_target, target_points, chunk_size,
                   row_counter, sampled_data, inMemoryVars>>
    /\ UNCHANGED <<sessionVars, threadVars, diskVars, trimVars, zeroVars,
                   diveVars>>

NextSubStep ==
    \/ SubsampleForCache
    \/ SubsampleForPlot
    \/ ReadChunk
    \/ ConcatSampled

SpecSub == InitSub /\ [][NextSubStep]_vars

(***************************************************************************)
(* process_zero_mean on explicit trimmed datasets.  A row is a record of   *)
(* its timestamp, pressure and reading_number.  Pressures are integers and *)
(* every mean or difference is held exactly, as numerator and denominator; *)
(* the rounding of the floating-point operations is not modelled.          *)
(***************************************************************************)
RECURSIVE Sum(_)
Sum(values) == IF values = <<>> THEN 0 ELSE Head(values) + Sum(Tail(values))

\* Series.mean(): NaN for no value
Mean(values) ==
    IF values = <<>> THEN NaN ELSE [num |-> Sum(values), den |-> Len(values)]

\* data['pressure']
Pressures(rows) == [k \in 1..Len(rows) |-> rows[k].pressure]

\* (mutant) the global average rounded down to a whole number
GlobalAverage_Floored(rows) ==
    IF rows = <<>> THEN NaN
    ELSE [num |-> Sum(Pressures(rows)) \div Len(rows), den |-> 1]

\* avg_depth_full_rec = data['pressure'].mean()
GlobalAverage(rows) == Mean(Pressures(rows))

\* pressure - avg_depth_full_rec
MinusAverage(pressure, avg) ==
    [num |-> pressure * avg.den - avg.num, den |-> avg.den]

\* the keys of groupby('reading_number'), which sorts them
RECURSIVE SortedKeys(_)
SortedKeys(S) ==
    IF S = {} THEN <<>>
    ELSE LET m == CHOOSE x \in S : \A y \in S : x <= y
         IN  <<m>> \o SortedKeys(S \ {m})

\* the rows of one reading
RowsOfReading(rows, r) == SelectSeq(rows, LAMBDA row : row.reading_number = r)

\* (mutant) the averages are taken after the global average is subtracted
ReadingAverages_AfterSubtraction(rows) ==
    LET keys == SortedKeys({rows[k].reading_number : k \in 1..Len(rows)})
        avg == GlobalAverage(rows)
    IN  [k \in 1..Len(keys) |->
            LET m == Mean(Pressures(RowsOfReading(rows, keys[k])))
            IN  [reading_number |-> keys[k],
                 average_depth |-> [num |-> m.num * avg.den - avg.num * m.den,
                                    den |-> m.den * avg.den]]]

\* reading_averages = data.groupby('reading_number')['pressure'].mean()
\*                        .reset_index(), columns renamed
ReadingAverages(rows) ==
    LET keys == SortedKeys({rows[k].reading_number : k \in 1..Len(rows)})
    IN  [k \in 1..Len(keys) |->
            [reading_number |-> keys[k],
             average_depth |-> Mean(Pressures(RowsOfReading(rows, keys[k])))]]

\* trimmed datasets of n rows: a slice of a canonical dataset, so the
\* timestamps increase and the reading numbers go up by 0 or 1 from the
\* first one
TrimmedDatasets(n) ==
    {[k \in 1..n |->
        [timestamp |-> k,
         pressure |-> pressure[k],
         reading_number |-> first + Sum([j \in 1..(k - 1) |-> step[j + 1]])]] :
            pressure \in [1..n -> 0..MaxPressure],
            first \in 1..2,
            step \in [2..n -> {0, 1}]}

\* the Step2 file is written and process_zero_mean is about to read it
InitZero ==
    /\ InitSession("closed", NoSample)
    /\ InitThreads
    /\ output_file = EarlierOutput
    /\ viz_cache_file = 0
    /\ step1_rows = 0
    /\ dive_mask = NoMask
    /\ InitManualRemoval
    /\ InitNoSubsample
    /\ \E n \in 0..MaxRows : step2_data \in TrimmedDatasets(n)
    /\ zero_mean_file = NoDerivedFile
    /\ parameters_file = NoDerivedFile
    /\ InitNoDive

\* process_zero_mean: both files are written, each with the global average
\* in its header
process_zero_mean ==
    /\ LET data == step2_data
           avg_depth_full_rec == GlobalAverage(data)
           reading_averages == ReadingAverages(data)
           zero_mean_data ==
               [k \in 1..Len(data) |->
                   [data[k] EXCEPT
                       !.pressure = MinusAverage(@, avg_depth_full_rec)]]
       IN  /\ zero_mean_file' =
                 [exists |-> TRUE,
                  avg_depth_full_rec |-> avg_depth_full_rec,
                  rows |-> zero_mean_data]
           /\ parameters_file' =
                 [exists |-> TRUE,
                  avg_depth_full_rec |-> avg_depth_full_rec,
                  rows |-> reading_averages]
    /\ UNCHANGED step2_data
    /\ UNCHANGED <<sessionVars, threadVars, diskVars, trimVars, subVars,
                   diveVars>>

NextZeroStep == process_zero_mean

SpecZero == InitZero /\ [][NextZeroStep]_vars

(***************************************************************************)
(* detect_dives and detect_dive_legs on explicit arrays.  Pressures are    *)
(* integers (tenths of the unit of the stated examples).  The gradient is  *)
(* held doubled, so that it is an integer, and a comparison with the       *)
(* standard deviation is made on the squares, which is the same comparison *)
(* in exact arithmetic; the rounding of the floating-point operations is   *)
(* not modelled.  Indices are zero-based as in the code.                   *)
(***************************************************************************)
\* if n < 100
MinSamples == 100
\* min(n // 3, 2000), max(2 * n // 3, n - 2000)
WindowCap == 2000
\* range(max_jump_idx + 1, min(max_jump_idx + 100, search_end))
SettleSpan == 100
\* ending_section[i:i+50]
DropRun == 50

At(a, i) == a[i + 1]

\* a[lo] + ... + a[hi]
RECURSIVE SumOver(_, _, _)
SumOver(a, lo, hi) ==
    IF lo > hi THEN 0
    ELSE IF lo = hi THEN At(a, lo)
    ELSE LET mid == (lo + hi) \div 2
         IN  SumOver(a, lo, mid) + SumOver(a, mid + 1, hi)

\* 2 * np.gradient(pressure): central differences, one-sided at the ends
Gradient2(pressure) ==
    LET n == Len(pressure)
    IN  [i1 \in 1..n |->
            LET i == i1 - 1
            IN  IF i = 0 THEN 2 * (At(pressure, 1) - At(pressure, 0))
                ELSE IF i = n - 1
                THEN 2 * (At(pressure, n - 1) - At(pressure, n - 2))
                ELSE At(pressure, i + 1) - At(pressure, i - 1)]

\* n^2 * np.std(g)^2 = n * sum(g^2) - sum(g)^2
Spread(g) ==
    LET n == Len(g)
        total == SumOver(g, 0, n - 1)
    IN  n * SumOver([i \in 1..n |-> g[i] * g[i]], 0, n - 1) - total * total

\* x > sensitivity * grad_std for n samples, x and grad_std both doubled,
\* spread the n^2 * grad_std^2 above
ExceedsStd(x, s, spread, n) == x > 0 /\ x * x * n * n > s * s * spread

\* gradient_abs[i] < grad_std
BelowStd(x, spread, n) == x * x * n * n < spread

\* beginning_grad.argmax(): the first index of the largest of g[0:w]
ArgMax(g, w) ==
    CHOOSE j \in 0..(w - 1) :
        /\ \A i \in 0..(w - 1) : At(g, i) <= At(g, j)
        /\ \A i \in 0..(j - 1) : At(g, i) < At(g, j)

\* the index a for loop breaks at, the least of those that satisfy its
\* test; NoIndex if there is none
FirstOf(candidates) ==
    IF candidates = {} THEN NoIndex
    ELSE CHOOSE i \in candidates : \A j \in candidates : i <= j

\* (mutant) no array is too short
TooShort_Never(n) == FALSE

\* if n < 100: return dive_mask
TooShort(n) == n < MinSamples

\* the beginning leg: the end of mask[0:jump_end], 0 when nothing is marked
BeginningLeg(pressure, s) ==
    LET n == Len(pressure)
        g == Gradient2(pressure)
        spread == Spread(g)
        search_end == Min(n \div 3, WindowCap)
        max_jump_idx == ArgMax(g, search_end)
        settled ==
            FirstOf({i \in (max_jump_idx + 1)
                            ..(Min(max_jump_idx + SettleSpan, search_end) - 1) :
                        BelowStd(At(g, i), spread, n)})
        jump_end == IF settled = NoIndex THEN max_jump_idx ELSE settled
    IN  IF ExceedsStd(At(g, max_jump_idx), s, spread, n)
        THEN Min(jump_end + TenPercent(jump_end), n - 1)
        ELSE 0

\* the sum and the count of pressure[n//3:2*n//3], of which wave_mean is
\* the quotient
MiddleThird(pressure) ==
    LET n == Len(pressure)
    IN  [sum |-> SumOver(pressure, n \div 3, ((2 * n) \div 3) - 1),
         count |-> ((2 * n) \div 3) - (n \div 3)]

\* x < low_threshold, low_threshold = wave_mean * 0.3
BelowThreshold(x, middle) == 10 * x * middle.count < 3 * middle.sum

\* the ending leg: the start of mask[drop_start:], n when nothing is marked
EndingLeg(pressure) ==
    LET n == Len(pressure)
        search_start == Max((2 * n) \div 3, n - WindowCap)
        ending_len == n - search_start
        middle == MiddleThird(pressure)
        found ==
            FirstOf({i \in 0..(ending_len - DropRun - 1) :
                        \A d \in 0..(DropRun - 1) :
                            BelowThreshold(At(pressure, search_start + i + d),
                                           middle)})
    IN  IF found = NoIndex THEN n
        ELSE LET drop_start == search_start + found
             IN  Max(drop_start - TenPercent(n - drop_start), 0)

\* detect_dives(pressure, sensitivity): the mask, held as the end of the
\* rows marked from the start and the start of the rows marked to the end
DetectDives(pressure, s) ==
    IF TooShort(Len(pressure))
    THEN [jump_end |-> 0, drop_start |-> Len(pressure)]
    ELSE [jump_end |-> BeginningLeg(pressure, s),
          drop_start |-> EndingLeg(pressure)]

\* the boolean array of a mask over n samples
MaskArray(mask, n) ==
    [i1 \in 1..n |-> (i1 - 1) < mask.jump_end \/ (i1 - 1) >= mask.drop_start]

\* noise of one tenth on samples held in tenths: -1, 0 or 1
Noise(i) == ((i * 7 + (i \div 5)) % 3) - 1

\* an array of n samples: k zeros, then a rise of r samples of c each to a
\* level kept to the end, with noise of amplitude amp, and d_len zeros
\* from index d_start
Profile(n, k, r, c, amp, d_start, d_len) ==
    [i1 \in 1..n |->
        LET i == i1 - 1
        IN  IF i < k THEN 0
            ELSE IF d_start <= i /\ i < d_start + d_len THEN 0
            ELSE Min(i - k + 1, r) * c + amp * Noise(i)]

\* steps to a baseline of 10.0 (100 tenths) with and without noise of 0.1,
\* below and above 100 samples
Steps ==
    {Profile(n, k, 1, 100, amp, n, 0) :
        n \in {60, 99, 100, 130, 160}, k \in 0..MaxZeros, amp \in {0, 1}}
\* slow rises
Ramps ==
    {Profile(n, k, r, 8, 0, n, 0) :
        n \in {120, 130}, k \in {5, 20} \cup ((MaxZeros - 16)..MaxZeros),
        r \in {MaxRamp \div 2, MaxRamp}}
\* a run of zeros at or near the end, after a step or without one
Drops ==
    {Profile(n, k, 1, 100, amp, n - len - e, len) :
        n \in {160, 170}, k \in {0, 5}, amp \in {0, 1},
        len \in (DropRun - MaxSlack)..(DropRun + MaxSlack), e \in 0..MaxSlack}
\* 500 zeros, then 1,500 samples at 10
StatedStep == Profile(2000, 500, 1, 10, 0, 2000, 0)

InitDive ==
    /\ InitSession("viz", NoSample)
    /\ InitThreads
    /\ output_file = EarlierOutput
    /\ viz_cache_file = 0
    /\ step1_rows = 0
    /\ dive_mask = NoMask
    /\ InitManualRemoval
    /\ InitNoSubsample
    /\ InitNoZeroMean
    /\ pressure_viz \in Steps \cup Ramps \cup Drops \cup {StatedStep}
    /\ sensitivity \in 1..MaxSensitivity
    /\ dive_pc = "idle"

\* VisualizationWindow.create_plot, line 939: the mask of the plot
detect_dives ==
    /\ dive_pc = "idle"
    /\ dive_mask' = DetectDives(pressure_viz, sensitivity)
    /\ dive_pc' = "masked"
    /\ UNCHANGED <<pressure_viz, sensitivity>>
    /\ UNCHANGED <<step1_rows, beginning_viz_range, ending_viz_range,
                   cut_indices, trim_locals, step2_file, written_files>>
    /\ UNCHANGED <<sessionVars, threadVars, diskVars, subVars, zeroVars>>

\* ManualRemovalWindow.detect_dive_legs: its own mask, with the default
\* sensitivity, and the ranges of the two legs
detect_dive_legs ==
    /\ dive_pc = "masked"
    /\ LET mask == DetectDives(pressure_viz, DefaultSensitivity)
           legs == DetectDiveLegs(mask, Len(pressure_viz))
       IN  /\ dive_mask' = mask
           /\ beginning_viz_range' = legs.beginning
           /\ ending_viz_range' = legs.ending
    /\ dive_pc' = "legs"
    /\ UNCHANGED <<pressure_viz, sensitivity>>
    /\ UNCHANGED <<step1_rows, cut_indices, trim_locals, step2_file,
                   written_files>>
    /\ UNCHANGED <<sessionVars, threadVars, diskVars, subVars, zeroVars>>

NextDiveStep == detect_dives \/ detect_dive_legs

SpecDive == InitDive /\ [][NextDiveStep]_vars


(***************************************************************************)
(* Claims about the ingestion run (specification Spec).                    *)
(***************************************************************************)
\* run t has emitted finished(True, final_df) and the frame is still held
Produced(t) == pc[t] = "succeeded" /\ has_final_df[t]

\* the data files run t has read, in the order it read them
InputFiles(t) == Take(thread_files[t], loop_i[t])

RECURSIVE TotalSamples(_)
TotalSamples(files) ==
    IF files = <<>> THEN 0 ELSE FileLen[Head(files)] + TotalSamples(Tail(files))

\* the k-th raw sample of the files taken one after the other
RECURSIVE SampleAt(_, _)
SampleAt(files, k) ==
    IF k <= FileLen[Head(files)]
    THEN Sample(Head(files), k)
    ELSE SampleAt(Tail(files), k - FileLen[Head(files)])

\* the first floor(N / ppr) * ppr samples of the files, ppr = freq * 1200
ExpectedPressure ==
    [files \in ListsUpTo(MaxFiles), freq \in Frequencies |->
        [k \in 1..((TotalSamples(files) \div (freq * SecondsPerReading))
                   * (freq * SecondsPerReading)) |-> SampleAt(files, k)]]

\* C1: a successful run produces a dataset whose pressure column is exactly
\* the first floor(N / ppr) * ppr samples of the concatenation, in input
\* order, of the arrays of the files it was given (N the total number of raw
\* samples, ppr = frequency * 1200); the trailing partial window is dropped.
C1_PressureIsTruncatedConcatenation ==
    \A t \in Runs :
        Produced(t) =>
            /\ all_pressure_data[t] = InputFiles(t)
            /\ final_df(t).pressure =
                 ExpectedPressure[InputFiles(t), metadata[t].sensor_frequency]

\* a run succeeded on two different files whose samples do not fill a whole
\* number of readings: a non-empty dataset with a remainder dropped
C1_Witness ==
    \E t \in Runs :
        /\ Produced(t)
        /\ InputFiles(t) = <<1, 2>>
        /\ FrameLen(final_df(t)) > 0
        /\ FrameLen(final_df(t)) < TotalSamples(InputFiles(t))

\* reading_number column r for windows of ppr rows: non-decreasing from 1,
\* no value skipped, every value 1..n on exactly ppr consecutive rows
ReadingColumnOK(r, ppr) ==
    LET n == Len(r) \div ppr
    IN  /\ Len(r) = n * ppr
        /\ Len(r) > 0 => r[1] = 1
        /\ \A j \in 1..(Len(r) - 1) : r[j] <= r[j + 1] /\ r[j + 1] <= r[j] + 1
        /\ \A v \in 1..n :
              {j \in 1..Len(r) : r[j] = v} = ((v - 1) * ppr + 1)..(v * ppr)
        /\ \A j \in 1..Len(r) : r[j] \in 1..n

ReadingColumnsOK ==
    [files \in ListsUpTo(MaxFiles), freq \in Frequencies |->
        /\ ReadingColumnOK(Frames[files, freq].reading_number,
                           freq * SecondsPerReading)
        /\ Len(Frames[files, freq].reading_number)
             = Len(Frames[files, freq].pressure)]

\* C2: in every dataset a run produces, reading_number is non-decreasing,
\* starts at 1, takes each value 1..total_readings on exactly
\* points_per_reading consecutive rows and skips no value.
C2_ReadingNumbersSpanWindows ==
    \A t \in Runs :
        Produced(t) =>
            ReadingColumnsOK[all_pressure_data[t], metadata[t].sensor_frequency]

\* a run produced a dataset of two readings
C2_Witness ==
    \E t \in Runs :
        /\ Produced(t)
        /\ FrameLen(final_df(t)) = 2 * PointsPerReading(metadata[t].sensor_frequency)
        /\ final_df(t).reading_number[FrameLen(final_df(t))] = 2

\* the two kinds of signal a run emits
IsProgress(e) == e[1] = "progress"
IsFinished(e) == e[1] = "finished"

\* C3 (as claimed): the progress percentages one run emits never decrease.
C3_ProgressMonotonic ==
    \A t \in Runs :
        \A i \in 1..Len(events[t]) : \A j \in i..Len(events[t]) :
            (IsProgress(events[t][i]) /\ IsProgress(events[t][j]))
                => events[t][i][2] <= events[t][j][2]

Terminated(t) == pc[t] \in {"succeeded", "failed", "cancelled"}

OutcomeEvents(t) == {k \in 1..Len(events[t]) : IsFinished(events[t][k])}

WroteToOutput(t) == \E k \in 1..Len(output_file) : output_file[k][2] = t

\* C4 (as claimed): a run that observed the stop signal reports a
\* 'cancelled' outcome, and every run that has ended has reported exactly
\* one terminal outcome.
C4_EveryEndedRunReportsAnOutcome ==
    \A t \in Runs : Terminated(t) => Cardinality(OutcomeEvents(t)) = 1

\* what run t has done so far
Work(t) == <<loop_i[t], all_pressure_data[t], events[t], has_final_df[t],
             {k \in 1..Len(output_file) : output_file[k][2] = t}>>

\* C4 (amended): a run that polls should_stop and finds it set returns at
\* once: it reads no further file, writes nothing and emits nothing, not
\* even an outcome, and does nothing afterwards; a run that ended without
\* observing the stop signal has emitted exactly one finished signal, as its
\* last event, and a run that is still executing has emitted none.
C4_CancelledRunStopsSilently ==
    /\ [](\A t \in Runs :
            /\ pc[t] = "cancelled"
                 => OutcomeEvents(t) = {} /\ ~WroteToOutput(t) /\ ~has_final_df[t]
            /\ pc[t] \in {"succeeded", "failed"}
                 => OutcomeEvents(t) = {Len(events[t])}
            /\ ~Terminated(t) => OutcomeEvents(t) = {})
    /\ [][\A t \in Runs :
            /\ (pc[t] = "loop" /\ should_stop[t] /\ pc'[t] # pc[t])
                 => pc'[t] = "cancelled"
            /\ (pc[t] = "loop" /\ should_stop[t]) => Work(t)' = Work(t)
            /\ pc[t] = "cancelled" => pc'[t] = "cancelled" /\ Work(t)' = Work(t)]_vars

\* a run read a file, then found should_stop set and returned with files left
C4_Witness ==
    \E t \in Runs :
        /\ pc[t] = "cancelled"
        /\ loop_i[t] = 1
        /\ Len(thread_files[t]) = 2

\* C5 (as claimed): a run that ended cancelled or failed has left nothing of
\* its dataset in the canonical output file, and a run whose stop was
\* requested before its save step never writes the file.
C5_NoPartialOutput ==
    /\ [](\A t \in Runs : pc[t] \in {"cancelled", "failed"} => ~WroteToOutput(t))
    /\ [][\A t \in Runs :
            (should_stop[t] /\ pc[t] # "save_body")
                => Work(t)'[5] = Work(t)[5]]_vars

\* run t is executing and nothing stands between it and the output file
CanStillWrite(t) ==
    \/ pc[t] \in {"save_header", "save_body"}
    \/ pc[t] \in {"start", "loop"} /\ ~should_stop[t]

\* C6 (as claimed): at no time are two runs executing that can both write
\* the canonical output file.
C6_AtMostOneActiveRun ==
    \A t1 \in Runs : \A t2 \in Runs :
        (t1 # t2) => ~(CanStillWrite(t1) /\ CanStillWrite(t2))

(***************************************************************************)
(* Claims about trimming (specification SpecTrim).                         *)
(***************************************************************************)
\* save_trimmed_data has written Step2_Initial_Cut.csv
Trimmed == step2_file.exists /\ trim_locals.ran

\* C7 (as claimed): the step save_trimmed_data multiplies a viz index by
\* is the step the visualization sample was built with, floor(len / 10000)
\* when len > 10000 and 1 otherwise, whatever the length of the dataset.
C7_TrimStepIsSubsamplerStep ==
    Trimmed =>
        trim_locals.subsample_step = SubsampleStep(step1_rows, VizTarget)

\* the rows begin <= i < end of a dataset of len rows, absent begin being 0
\* and absent end being len
HalfOpen(begin, end, len) ==
    (IF begin = NoIndex THEN 0 ELSE begin)
        .. ((IF end = NoIndex THEN len ELSE end) - 1)

RowsOf(df) == df.first .. (df.first + df.len - 1)

\* C8 (as claimed): the trimmed dataset is exactly the canonical rows i
\* with begin_full_index <= i < end_full_index (absent begin = 0, absent
\* end = the length), empty when end_full_index <= begin_full_index, and
\* the counts reported satisfy removed = original - trimmed.
C8_TrimIsHalfOpenSlice ==
    Trimmed =>
        /\ RowsOf(step2_file.rows) =
             HalfOpen(trim_locals.beginning_full_idx,
                      trim_locals.ending_full_idx, step1_rows)
        /\ step2_file.original_points = step1_rows
        /\ step2_file.trimmed_points = Cardinality(RowsOf(step2_file.rows))
        /\ step2_file.points_removed =
             step2_file.original_points - step2_file.trimmed_points

\* the cut the claim expects on one side: the click, else the boundary of
\* the leg detected in the sample, else none
ExpectedCut(click, detected, k) ==
    CASE click # NoIndex -> click
      [] click = NoIndex /\ detected # NoRange -> detected[k]
      [] OTHER -> NoIndex

\* the full-resolution index of a viz index under the step of the trim
Scaled(cut) == IF cut = NoIndex THEN NoIndex ELSE cut * trim_locals.subsample_step

\* C9 (as claimed): on every path that writes the trimmed dataset, the
\* skip path included, each side is cut at the operator's cut point if
\* there is one, else at the boundary of the detected leg, else not at all.
C9_EffectiveCutOnEveryPath ==
    step2_file.exists =>
        LET detected == DetectDiveLegs(dive_mask, processed_data.sampled)
            begin == ExpectedCut(cut_indices.beginning, detected.beginning, 2)
            end == ExpectedCut(cut_indices.ending, detected.ending, 1)
        IN  /\ (begin = NoIndex) <=> (trim_locals.beginning_full_idx = NoIndex)
            /\ (end = NoIndex) <=> (trim_locals.ending_full_idx = NoIndex)
            /\ trim_locals.ran =>
                  /\ trim_locals.beginning_full_idx = Scaled(begin)
                  /\ trim_locals.ending_full_idx = Scaled(end)

\* C9 (amended): when save_trimmed_data writes the trimmed dataset, each
\* side is cut at the operator's cut point if there is one, else at the
\* boundary of the detected leg (the end of the beginning range, the start
\* of the ending range), else not at all; when the operator skips removal
\* no side is cut, whatever was detected: the Step2 file holds every row.
C9_EffectiveCutWhenSaving ==
    step2_file.exists =>
        IF trim_locals.ran
        THEN LET detected == DetectDiveLegs(dive_mask, processed_data.sampled)
                 begin == ExpectedCut(cut_indices.beginning, detected.beginning, 2)
                 end == ExpectedCut(cut_indices.ending, detected.ending, 1)
             IN  /\ trim_locals.beginning_full_idx = Scaled(begin)
                 /\ trim_locals.ending_full_idx = Scaled(end)
        ELSE step2_file.rows = WholeData(step1_rows)

\* saved with a click on the beginning side away from the detected boundary
\* and no click on the ending side, where a leg was detected
C9_Witness ==
    /\ Trimmed
    /\ cut_indices.beginning # NoIndex
    /\ beginning_viz_range # NoRange
    /\ cut_indices.beginning # beginning_viz_range[2]
    /\ cut_indices.ending = NoIndex
    /\ ending_viz_range # NoRange
    /\ trim_locals.ending_full_idx # NoIndex

(***************************************************************************)
(* Claims about subsampling (specification SpecSub).                       *)
(***************************************************************************)
\* out is what the claim says subsampling data to target gives
SubsampleIs(data, out, target) ==
    IF Len(data) <= target
    THEN out = data
    ELSE LET step == Len(data) \div target
             kept == {i \in 0..(Len(data) - 1) : i % step = 0}
         IN  /\ Len(out) = Cardinality(kept)
             /\ \A j \in 1..Len(out) : out[j] = data[(j - 1) * step + 1]

\* C10: subsampling a dataset to a target returns it unchanged when it has
\* at most target rows; otherwise, with step = floor(len / target), it
\* returns the rows at indices 0, step, 2 * step, ... in order, all of them
\* and no other row.  The result is fixed by the dataset and the target, so
\* equal inputs give equal outputs.
C10_SubsampleKeepsMultiplesOfStep ==
    /\ sub_pc # "idle" => SubsampleIs(result_df, viz_data, viz_target)
    /\ sub_pc = "plotted" => SubsampleIs(viz_data, data_to_plot, target_points)

\* a dataset was thinned with a step of 2 or more that does not divide its
\* length, and the sample thinned again for the plot
C10_Witness ==
    /\ sub_pc = "plotted"
    /\ Len(result_df) \div viz_target >= 2
    /\ Len(result_df) % (Len(result_df) \div viz_target) # 0
    /\ Len(viz_data) < Len(result_df)
    /\ Len(data_to_plot) < Len(viz_data)

\* C11 (as claimed): for every canonical file, the chunked reader of main()
\* ends with the rows the in-memory subsample of the same dataset keeps, in
\* the same order, wherever the chunk boundaries fall.
C11_ChunkedEqualsInMemory ==
    main_pc \in {"loaded", "failed"} =>
        /\ main_pc = "loaded"
        /\ main_df = Subsample(result_df, viz_target)

\* C12 (as claimed): the sample never has more records than the target.
C12_SampleWithinTarget ==
    /\ sub_pc # "idle" => Len(viz_data) <= viz_target
    /\ sub_pc = "plotted" => Len(data_to_plot) <= target_points
    /\ main_pc = "loaded" => Len(main_df) <= viz_target

\* out has at most as many records as data, and fewer than twice target
BoundedSample(data, out, target) ==
    /\ Len(out) <= Len(data)
    /\ Len(data) <= target => Len(out) = Len(data)
    /\ Len(data) > target => Len(out) <= 2 * target - 1

\* C12 (amended): a dataset of at most T records is returned whole; a longer
\* one is thinned to at most 2 * T - 1 records, which can exceed T because
\* the step floor(L / T) is rounded down (L = 2 * T - 1 gives step 1).
C12_SampleBelowTwiceTarget ==
    /\ sub_pc # "idle" => BoundedSample(result_df, viz_data, viz_target)
    /\ sub_pc = "plotted" => BoundedSample(viz_data, data_to_plot, target_points)
    /\ main_pc = "loaded" => BoundedSample(result_df, main_df, viz_target)

\* a dataset longer than the target was sampled to more records than the
\* target
C12_Witness ==
    /\ sub_pc # "idle"
    /\ Len(result_df) > viz_target
    /\ Len(viz_data) > viz_target

(***************************************************************************)
(* Further claims about the ingestion run (specification Spec).            *)
(***************************************************************************)
\* run t raised after the file loop and before it opened the output file
FailedInAssembly(t) ==
    /\ pc[t] = "failed"
    /\ Progress(45) \in Range(events[t])
    /\ Progress(90) \notin Range(events[t])

\* C13 (as claimed): a run whose metadata lacks the start or the end date
\* (line missing or unparsable) is not aborted by it: it does not fail
\* between the file loop and the save.
C13_MissingDateDoesNotAbort ==
    \A t \in Runs :
        (metadata[t].date_start = None \/ metadata[t].date_end = None)
            => ~FailedInAssembly(t)

\* C14 (as claimed): the frequency the ingestion run uses is the one the
\* operator was shown when the metadata file was selected (keyword line of
\* the first 10 lines, else line 2, else 8).
C14_ShownFrequencyIsUsedFrequency ==
    \A t \in Runs :
        pc[t] \notin {"unborn", "start"}
            => metadata[t].sensor_frequency = ReadFrequencyFromInfo(thread_info[t])

SupportedExtensions == {".npy", ".dat", ".txt"}

\* C15: a run that comes to a data file whose extension is not .npy, .dat
\* or .txt ends there with the failure outcome, whatever the position of
\* the file and however many files were read before it; it has read no
\* array from such a file and has written nothing to the canonical file.
C15_UnsupportedFileFailsRun ==
    /\ [](\A t \in Runs :
            \A k \in 1..Len(all_pressure_data[t]) :
                FileExt[all_pressure_data[t][k]] \in SupportedExtensions)
    /\ [][\A t \in Runs :
            (/\ pc[t] = "loop"
             /\ loop_i[t] < Len(thread_files[t])
             /\ FileExt[thread_files[t][loop_i[t] + 1]] \notin SupportedExtensions
             /\ ~should_stop[t]
             /\ <<pc[t], loop_i[t], events[t]>>' # <<pc[t], loop_i[t], events[t]>>)
                => /\ pc'[t] = "failed"
                   /\ events'[t][Len(events'[t])] = Finished(FALSE)
                   /\ Finished(TRUE) \notin Range(events'[t])
                   /\ Work(t)'[5] = {}
                   /\ all_pressure_data'[t] = all_pressure_data[t]]_vars

\* a run read one file and failed on the unsupported file after it
C15_Witness ==
    \E t \in Runs :
        /\ pc[t] = "failed"
        /\ loop_i[t] = 1
        /\ Len(thread_files[t]) = 2
        /\ FileExt[thread_files[t][2]] \notin SupportedExtensions

\* C16: wherever a run fails (reading the metadata or a data file,
\* assembling, saving), it emits its diagnostic text, the message and the
\* trace, immediately before the failure outcome, and it emits no success
\* outcome; a run has failed exactly when it has emitted the failure outcome.
C16_DiagnosticPrecedesFailure ==
    \A t \in Runs :
        /\ \A k \in 1..Len(events[t]) :
              events[t][k] = Finished(FALSE)
                  => /\ k > 1
                     /\ events[t][k - 1] = ErrorReport
                     /\ Finished(TRUE) \notin Range(events[t])
        /\ pc[t] = "failed" <=> Finished(FALSE) \in Range(events[t])

\* runs have failed in the file loop, in assembly and while saving
C16_Witness ==
    /\ \E t \in Runs : pc[t] = "failed" /\ WroteToOutput(t)
    /\ \E t \in Runs : pc[t] = "failed" /\ ~WroteToOutput(t)

\* C17: when the raw samples read do not fill one reading (fewer than
\* sensor_frequency * 1200), the run is not aborted for it: it builds a
\* canonical dataset of length 0, and only a missing start date makes it
\* fail between the file loop and the save.
C17_ShortInputGivesEmptyDataset ==
    \A t \in Runs :
        (/\ pc[t] \notin {"unborn", "start"}
         /\ TotalSamples(all_pressure_data[t])
              < metadata[t].sensor_frequency * SecondsPerReading)
            => /\ has_final_df[t] => final_df(t) = EmptyFrame
               /\ FailedInAssembly(t) => metadata[t].date_start = None

\* a run given two files at 8 Hz, 2000 samples against 9600 a reading, has
\* succeeded with an empty dataset
C17_Witness ==
    \E t \in Runs :
        /\ Produced(t)
        /\ metadata[t].sensor_frequency = 8
        /\ Len(all_pressure_data[t]) = 2
        /\ FrameLen(final_df(t)) = 0

(***************************************************************************)
(* Further claims about trimming (specification SpecTrim).                 *)
(***************************************************************************)
\* C18: no handler of the trimming stage, with or without cut points,
\* writes to the canonical file: what is on disk under Step1_TXTtoCSV.csv
\* and the rows read from it stay as they were, and the handlers open only
\* Step2_Initial_Cut.csv, Step2_Zero_Mean.csv and Parameters.csv for writing.
C18_CanonicalFileNeverMutated ==
    /\ [](/\ Step1Name \notin written_files
          /\ step2_file.exists
               => written_files = {"Step2_Initial_Cut.csv",
                                   "Step2_Zero_Mean.csv", "Parameters.csv"})
    /\ [][output_file' = output_file /\ step1_rows' = step1_rows]_vars

\* a trim with a clicked cut point has written its files
C18_Witness ==
    /\ trim_locals.ran
    /\ cut_indices.beginning # NoIndex
    /\ step2_file.exists
    /\ step2_file.rows.len < step1_rows
    /\ written_files # {}

(***************************************************************************)
(* Claims about zero-mean normalization (specification SpecZero).          *)
(***************************************************************************)
\* C19: once process_zero_mean has written the zero-mean file of a
\* non-empty trimmed dataset, the file has one row per input row, each with
\* the timestamp and reading_number of its input row and with the input
\* pressure less one scalar, the arithmetic mean of all input pressures
\* (the one in the header); the output pressures sum to zero.
C19_ZeroMeanSubtractsGlobalMean ==
    (zero_mean_file.exists /\ step2_data # <<>>)
        => LET n == Len(step2_data)
               out == zero_mean_file.rows
               c == zero_mean_file.avg_depth_full_rec
           IN  /\ Len(out) = n
               /\ c.den > 0
               /\ c.num * n = c.den * Sum(Pressures(step2_data))
               /\ \A k \in 1..n :
                     /\ out[k].timestamp = step2_data[k].timestamp
                     /\ out[k].reading_number = step2_data[k].reading_number
                     /\ out[k].pressure.den > 0
                     /\ out[k].pressure.num * c.den
                          = (step2_data[k].pressure * c.den - c.num)
                                * out[k].pressure.den
                     /\ out[k].pressure.den = out[1].pressure.den
               /\ Sum([k \in 1..n |-> out[k].pressure.num]) = 0

\* the zero-mean file of a dataset of several rows whose mean is not a whole
\* number and not one of its pressures has been written
C19_Witness ==
    /\ zero_mean_file.exists
    /\ Len(step2_data) > 1
    /\ Sum(Pressures(step2_data)) % Len(step2_data) # 0
    /\ \E k \in 1..Len(zero_mean_file.rows) : zero_mean_file.rows[k].pressure.num < 0

\* the pressures of the rows of the trimmed dataset with reading number r
PressuresOfReading(r) ==
    Pressures(SelectSeq(step2_data, LAMBDA row : row.reading_number = r))

\* C20: the statistics file has exactly one row per reading_number present
\* in the trimmed dataset, in ascending order of reading_number, and the
\* average_depth of a row is the mean of the pressures of that reading as
\* they are in the trimmed dataset, before the global mean is subtracted.
C20_OneAveragePerReading ==
    parameters_file.exists
        => LET stats == parameters_file.rows
               present == {step2_data[k].reading_number : k \in 1..Len(step2_data)}
           IN  /\ Len(stats) = Cardinality(present)
               /\ {stats[k].reading_number : k \in 1..Len(stats)} = present
               /\ \A k \in 1..(Len(stats) - 1) :
                     stats[k].reading_number < stats[k + 1].reading_number
               /\ \A k \in 1..Len(stats) :
                     LET own == PressuresOfReading(stats[k].reading_number)
                     IN  /\ stats[k].average_depth.den > 0
                         /\ stats[k].average_depth.num * Len(own)
                              = Sum(own) * stats[k].average_depth.den

\* the statistics of a dataset of two readings, one of them of two rows,
\* with different averages, have been written
C20_Witness ==
    /\ parameters_file.exists
    /\ Len(parameters_file.rows) = 2
    /\ Len(step2_data) = 3
    /\ parameters_file.rows[1].average_depth # parameters_file.rows[2].average_depth
    /\ parameters_file.avg_depth_full_rec.num # 0

(***************************************************************************)
(* Further claims about the canonical dataset (specification Spec).        *)
(***************************************************************************)
\* timestamp column ts, in milliseconds since midnight of the start date,
\* for frequency freq: starts at 0, every consecutive pair is 1000 / freq
\* apart, strictly increasing
TimestampColumnOK(ts, freq) ==
    /\ Len(ts) > 0 => ts[1] = 0
    /\ \A j \in 1..(Len(ts) - 1) :
          /\ freq * (ts[j + 1] - ts[j]) = 1000
          /\ ts[j] < ts[j + 1]

TimestampColumnsOK ==
    [files \in ListsUpTo(MaxFiles), freq \in Frequencies |->
        /\ TimestampColumnOK(Frames[files, freq].timestamp, freq)
        /\ Len(Frames[files, freq].timestamp)
             = (TotalSamples(files) \div (freq * SecondsPerReading))
                 * (freq * SecondsPerReading)]

\* C21: the timestamps of the dataset of a successful run start at midnight
\* of the start date, are exactly 1000 / frequency milliseconds apart (125
\* at 8 Hz), strictly increase, and are as many as the truncated samples.
C21_TimestampsArithmetic ==
    /\ \A t \in Runs :
          Produced(t) =>
              /\ TimestampColumnsOK[InputFiles(t), metadata[t].sensor_frequency]
              /\ Len(final_df(t).timestamp) = Len(final_df(t).pressure)
    /\ Timestamps(3, DefaultFrequency) = <<0, 125, 250>>

\* a run has produced a dataset of a whole reading
C21_Witness ==
    \E t \in Runs :
        /\ Produced(t)
        /\ Len(final_df(t).timestamp) >= SecondsPerReading
        /\ final_df(t).timestamp[2] = 1000

\* C27 (as claimed): the two dates are recovered independently: a start
\* line that fails to parse does not keep a well-formed end line from being
\* parsed, and the other way round.
C27_DatesRecoveredIndependently ==
    \A t \in Runs :
        pc[t] \notin {"unborn", "start"}
            => /\ InfoLine5[thread_info[t]] = "ok"
                    => metadata[t].date_start # None
               /\ InfoLine7[thread_info[t]] = "ok"
                    => metadata[t].date_end # None

\* C28 (as claimed): the data-file list of the session never holds a path
\* twice, whatever was added and cleared.
C28_NoDuplicateDataFiles ==
    \A i, j \in 1..Len(data_files) :
        i # j => data_files[i] # data_files[j]

\* the positions of events e at which run t emitted an outcome
OutcomePositions(e) == {k \in 1..Len(e) : IsFinished(e[k])}

\* C30: a run reports success at most once, as its last event, right after
\* the progress event of 100, and never together with a failure; it does
\* so in the step that appends its complete table to the canonical file,
\* and it comes to that step only by writing the header block.
C30_SuccessOnlyAfterCompleteSave ==
    /\ [](\A t \in Runs :
            Finished(TRUE) \in Range(events[t])
                => /\ OutcomePositions(events[t]) = {Len(events[t])}
                   /\ events[t][Len(events[t])] = Finished(TRUE)
                   /\ events[t][Len(events[t]) - 1] = Progress(100)
                   /\ pc[t] = "succeeded")
    /\ [][\A t \in Runs :
            /\ (Finished(TRUE) \notin Range(events[t])
                  /\ Finished(TRUE) \in Range(events'[t]))
                 => /\ pc[t] = "save_body"
                    /\ output_file' = Append(output_file, Chunk("body", t))
            /\ (pc[t] # "save_body" /\ pc'[t] = "save_body")
                 => output_file' = <<Chunk("header", t)>>
            /\ Finished(TRUE) \in Range(events[t]) => events'[t] = events[t]]_vars

\* a run has reported success and its table is the last thing in the file
C30_Witness ==
    \E t \in Runs :
        /\ pc[t] = "succeeded"
        /\ Len(output_file) >= 2
        /\ output_file[Len(output_file)] = Chunk("body", t)
        /\ events[t][Len(events[t])] = Finished(TRUE)

(***************************************************************************)
(* A further claim about trimming (specification SpecTrim).                *)
(***************************************************************************)
\* v * (len(full) // len(viz)) for the dataset and the sample of the window
FullIndex(v) == v * (step1_rows \div processed_data.sampled)

InsideFull(i) == 0 <= i /\ i < step1_rows

\* C29: for the sample of the canonical file being trimmed, every viz index
\* (0 and the last one bound all others), the operator's cuts and the
\* detected boundaries map inside [0, len(full)); hence the slice left
\* after the beginning cut is never empty when the ending cut is applied,
\* and the indices save_trimmed_data used are inside the dataset.
C29_CutIndicesInsideDataset ==
    LET n == processed_data.sampled
        begin_viz == EffectiveCut(cut_indices.beginning, beginning_viz_range, 2)
        end_viz == EffectiveCut(cut_indices.ending, ending_viz_range, 1)
    IN  /\ n > 0
        /\ InsideFull(FullIndex(0)) /\ InsideFull(FullIndex(n - 1))
        /\ \A v \in {begin_viz, end_viz} \ {NoIndex} :
              /\ 0 <= v /\ v <= n - 1
              /\ InsideFull(FullIndex(v))
        /\ (begin_viz # NoIndex /\ end_viz # NoIndex)
              => ILocFrom(WholeData(step1_rows), FullIndex(begin_viz)).len > 0
        /\ \A i \in {trim_locals.beginning_full_idx,
                     trim_locals.ending_full_idx} \ {NoIndex} : InsideFull(i)

\* saved with the last viz index clicked as the ending cut, on a dataset
\* thinned with a step above 1
C29_Witness ==
    /\ Trimmed
    /\ trim_locals.subsample_step > 1
    /\ cut_indices.ending = processed_data.sampled - 1
    /\ trim_locals.ending_full_idx
         = (processed_data.sampled - 1) * trim_locals.subsample_step

(***************************************************************************)
(* Claims about dive detection (specification SpecDive).                   *)
(***************************************************************************)
\* C22: on an array of fewer than 100 samples detect_dives returns a mask
\* of the length of the array with no entry set, whatever the sensitivity
\* and whatever the array holds.
C22_ShortArrayGivesEmptyMask ==
    (dive_pc # "idle" /\ Len(pressure_viz) < 100)
        => /\ dive_mask.jump_end = 0
           /\ dive_mask.drop_start = Len(pressure_viz)
           /\ Len(MaskArray(dive_mask, Len(pressure_viz))) = Len(pressure_viz)
           /\ \A i \in 1..Len(pressure_viz) :
                 ~MaskArray(dive_mask, Len(pressure_viz))[i]

\* a step of 99 samples, which a longer array would have a leg marked in,
\* has been given to detect_dives with the lowest sensitivity
C22_Witness ==
    /\ dive_pc = "masked"
    /\ sensitivity = 1
    /\ Len(pressure_viz) = 99
    /\ pressure_viz[1] = 0
    /\ pressure_viz[20] > 0

\* the number of zeros an array starts with
LeadingZeros(pressure) ==
    CHOOSE k \in 0..Len(pressure) :
        /\ \A i \in 0..(k - 1) : At(pressure, i) = 0
        /\ k = Len(pressure) \/ At(pressure, k) # 0

Abs(x) == IF x < 0 THEN -x ELSE x

\* k >= 1 zeros, then every sample within 1% of a positive baseline
StepShaped(pressure) ==
    LET k == LeadingZeros(pressure)
    IN  /\ 1 <= k /\ k < Len(pressure)
        /\ \E b \in {10, 100} :
              \A i \in k..(Len(pressure) - 1) :
                  100 * Abs(At(pressure, i) - b) <= b

LowRunAt(pressure, pos) ==
    \A i \in pos..(pos + 49) :
        BelowThreshold(At(pressure, i), MiddleThird(pressure))

\* C24 (as claimed): every position of the search window
\* [max(2n/3, n - 2000), n) that has 50 samples after it is examined: when
\* the final 50 samples are all below the threshold an ending leg is
\* marked, and when no position of the window starts a run of 50 samples
\* below the threshold no ending leg is marked.
C24_EveryWindowPositionExamined ==
    (dive_pc # "idle" /\ Len(pressure_viz) >= 100)
        => LET n == Len(pressure_viz)
               search_start == Max((2 * n) \div 3, n - 2000)
           IN  /\ (n - 50 >= search_start /\ LowRunAt(pressure_viz, n - 50))
                    => dive_mask.drop_start < n
               /\ (\A pos \in search_start..(n - 50) :
                       ~LowRunAt(pressure_viz, pos))
                    => dive_mask.drop_start = n

\* C25 (as claimed): with j the first index of the largest gradient of the
\* window and g[j] > s * grad_std, the leg ends at the first index after j,
\* before min(j + 100, window end), whose gradient is below grad_std, and
\* at min(j + 100, window end) when there is none; the end is extended by
\* a tenth of itself, capped at n - 1.  Without such a jump nothing is
\* marked.
C25_LegEndDefaultsToSpanEnd ==
    (dive_pc = "masked" /\ Len(pressure_viz) >= 100)
        => LET n == Len(pressure_viz)
               g == Gradient2(pressure_viz)
               spread == Spread(g)
               w == Min(n \div 3, 2000)
               j == ArgMax(g, w)
               settled == {i \in (j + 1)..(Min(j + 100, w) - 1) :
                              BelowStd(At(g, i), spread, n)}
               end == IF settled = {} THEN Min(j + 100, w)
                      ELSE CHOOSE i \in settled : \A i2 \in settled : i <= i2
           IN  IF ExceedsStd(At(g, j), sensitivity, spread, n)
               THEN dive_mask.jump_end = Min(end + (end \div 10), n - 1)
               ELSE dive_mask.jump_end = 0

\* C26 (as claimed): when the mask has a run of marked samples at the start
\* and a separate one at the end, with at least one unmarked sample between
\* them, detect_dive_legs gives two ranges, the beginning one inside the
\* first run and the ending one inside the last run, whatever the gap.
C26_OneRangePerRun ==
    (/\ dive_pc = "legs"
     /\ 0 < dive_mask.jump_end
     /\ dive_mask.jump_end < dive_mask.drop_start
     /\ dive_mask.drop_start < Len(pressure_viz))
        => /\ beginning_viz_range # NoRange
           /\ ending_viz_range # NoRange
           /\ beginning_viz_range[1] = 0
           /\ beginning_viz_range[2] < dive_mask.jump_end
           /\ ending_viz_range[1] >= dive_mask.drop_start
           /\ ending_viz_range[2] = Len(pressure_viz) - 1

====
